---------------------------- MODULE Spec2Model ----------------------------
(***************************************************************************)
(* Model of the logspec worker of kcidb-rest                                *)
(* (src/logspec-worker/logspec_worker.py, src/logspec-worker/logspec_api.py)*)
(*                                                                         *)
(* One worker process (main) runs passes: process_builds, process_tests,   *)
(* sleep.  The durable state is the two shelve stores of processed ids,    *)
(* the /cache directory and the spool directory; everything else is lost   *)
(* when the process stops.  The process stops when it is killed (Kill) or  *)
(* when an exception reaches main's loop, which catches nothing.           *)
(*                                                                         *)
(* Spec    is the program as written.  logspec_process_node calls          *)
(*         generate_issues_and_incidents with five positional arguments    *)
(*         (logspec_worker.py:324) and its definition takes four           *)
(*         (logspec_api.py:207), so the call raises TypeError before the   *)
(*         body runs and lines 399-412 / 443-455 never execute.            *)
(* SpecEnv adds to Spec the behaviours in which that call binds and the    *)
(*         body of generate_issues_and_incidents runs.  Every behaviour of *)
(*         Spec is a behaviour of SpecEnv, so a safety property of SpecEnv *)
(*         is one of the program.                                          *)
(* SpecFn  applies single functions of the program (is_processable,        *)
(*         new_issue, new_incident, the loop of                            *)
(*         generate_issues_and_incidents) to inputs from bounded sets.     *)
(***************************************************************************)
EXTENDS Integers, Sequences, FiniteSets, TLC

(***************************************************************************)
(* Bounds                                                                  *)
(***************************************************************************)
\* How many times the stopped worker is started again.
MaxRestarts == 1
\* How many passes one run of the worker makes before the model stops it.
MaxPasses == 1
\* How many findings a batch classified on its own holds at most.
MaxBatch == 3
\* scans the ingester begins after its first, and times it is started again
MaxScans == 1
MaxIngesterRestarts == 1

(***************************************************************************)
(* Program constants                                                       *)
(***************************************************************************)
PROCESS_DAYS == 1
\* positional parameters of generate_issues_and_incidents
GenerateParams == 4
\* positional arguments logspec_process_node passes to it
GenerateArgs == 5

\* os.urandom(8).hex(): the random part of a spool file name
RandomParts == {"00aa", "00bb"}

(***************************************************************************)
(* The results database (read-only for the worker).  age is the age of    *)
(* _timestamp in days; log_url << >> is SQL NULL.  A builds row has no    *)
(* path column (src/kcidb_schema.py).                                      *)
(***************************************************************************)
NULL == << >>

DotGz == <<".", "g", "z">>
DotLog == <<".", "l", "o", "g">>
UrlT1 == <<"http://s/t1">> \o DotLog \o DotGz
UrlT2 == <<"http://s/t2">> \o DotLog
UrlT3 == <<"http://s/t3">> \o DotLog
UrlT5 == <<"http://s/t5">> \o DotLog
UrlT6 == <<"http://s/t6">> \o DotLog
UrlB1 == <<"http://s/b1">> \o DotLog
UrlB2 == <<"http://s/b2">> \o DotLog

BootX86 == <<"b","o","o","t","/","x","8","6">>
SetupFoo == <<"s","e","t","u","p","/","f","o","o">>

TestsTable ==
  { [id |-> "t1", origin |-> "originA", path |-> BootX86,  status |-> "FAIL",
     log_url |-> UrlT1, age |-> 0],
    [id |-> "t2", origin |-> "originA", path |-> SetupFoo, status |-> "ERROR",
     log_url |-> UrlT2, age |-> 0],
    [id |-> "t3", origin |-> "originA", path |-> BootX86,  status |-> "PASS",
     log_url |-> UrlT3, age |-> 0],
    [id |-> "t4", origin |-> "originA", path |-> BootX86,  status |-> "FAIL",
     log_url |-> NULL, age |-> 0],
    [id |-> "t5", origin |-> "originA", path |-> BootX86,  status |-> "FAIL",
     log_url |-> UrlT5, age |-> 2],
    [id |-> "t6", origin |-> "originB", path |-> BootX86,  status |-> "FAIL",
     log_url |-> UrlT6, age |-> 0] }

BuildsTable ==
  { [id |-> "b1", origin |-> "originA", status |-> "FAIL",
     log_url |-> UrlB1, age |-> 0],
    [id |-> "b2", origin |-> "originA", status |-> "PASS",
     log_url |-> UrlB2, age |-> 0] }

Table(kind) == IF kind = "build" THEN BuildsTable ELSE TestsTable
Kinds == {"build", "test"}
Ids(kind) == { r.id : r \in Table(kind) }
AllIds == Ids("build") \cup Ids("test")
Row(kind, id) == CHOOSE r \in Table(kind) : r.id = id
KindOf(id) == IF id \in Ids("build") THEN "build" ELSE "test"
Urls == { r.log_url : r \in BuildsTable \cup TestsTable } \ {NULL}

(***************************************************************************)
(* Eligibility config: origin -> list of rules.  include_path is a tagged  *)
(* value: a string, a list of strings, or anything else.                   *)
(***************************************************************************)
BootStar == <<"b","o","o","t","/","*">>

SetupStar == <<"s","e","t","u","p","/","*">>

\* The config files the worker may be started with, by name:
\* "absent": the file does not exist, load_config sets {};
\* "boot":   tests under boot/ only;
\* "all":    builds and every test;
\* "bad":    a test rule whose include_path is neither a string nor a list.
ConfigNames == {"absent", "boot", "all", "bad"}

\* Further config files, on which is_processable is applied on its own:
\* "str":       include_path given as one string;
\* "two":       two test rules, the first for setup/, the second for boot/;
\* "buildpath": a build rule with an include_path, and a second origin.
FnConfigNames == ConfigNames \cup {"str", "two", "buildpath", "open"}

load_config(config_file) ==
  CASE config_file = "absent" -> [o \in {} |-> << >>]
    [] config_file = "boot" ->
         [originA |-> << [type |-> "test",
                          include_path |-> [t |-> "list", v |-> <<BootStar>>]] >>]
    [] config_file = "all" ->
         [originA |-> << [type |-> "build"], [type |-> "test"] >>]
    [] config_file = "bad" ->
         [originA |-> << [type |-> "test",
                          include_path |-> [t |-> "other", v |-> << >>]] >>]
    [] config_file = "str" ->
         [originA |-> << [type |-> "test",
                          include_path |-> [t |-> "str", v |-> BootStar]] >>]
    [] config_file = "two" ->
         [originA |-> << [type |-> "test",
                          include_path |-> [t |-> "list", v |-> <<SetupStar>>]],
                         [type |-> "test",
                          include_path |-> [t |-> "list", v |-> <<SetupStar, BootStar>>]],
                         [type |-> "build"] >>]
    [] config_file = "open" ->
         [originA |-> << [type |-> "build"],
                         [type |-> "test"],
                         [type |-> "test",
                          include_path |-> [t |-> "list", v |-> <<BootStar>>]] >>]
    [] config_file = "buildpath" ->
         [originA |-> << [type |-> "build",
                          include_path |-> [t |-> "list", v |-> <<BootStar>>]] >>,
          originB |-> << [type |-> "test"] >>]

RECURSIVE fnmatch(_, _)
\* fnmatch.fnmatch on POSIX (case-sensitive): "*" any run, "?" any one
\* character, anything else itself; the whole name must match.
fnmatch(name, pat) ==
  IF pat = << >> THEN name = << >>
  ELSE IF Head(pat) = "*"
       THEN fnmatch(name, Tail(pat)) \/ (name # << >> /\ fnmatch(Tail(name), pat))
  ELSE IF name = << >> THEN FALSE
  ELSE (Head(pat) = "?" \/ Head(pat) = Head(name)) /\ fnmatch(Tail(name), Tail(pat))

\* A path check that accepts every path.
validate_pathBug(path, include_path) == "true"

\* LogspecState.validate_path: "true", "false", or "exit" (sys.exit(1))
validate_path(path, include_path) ==
  LET lst == IF include_path.t = "str" THEN <<include_path.v>> ELSE include_path.v
  IN IF include_path.t \in {"str", "list"}
     THEN IF \E i \in 1..Len(lst) : fnmatch(path, lst[i]) THEN "true" ELSE "false"
     ELSE "exit"

\* A filter that accepts a row when any rule of the kind accepts it.
is_processableAnyBug(c, node, type) ==
  IF node.origin \notin DOMAIN c THEN "false"
  ELSE LET rules == c[node.origin]
           hits == { i \in 1..Len(rules) : rules[i].type = type }
       IN IF \E i \in hits :
                \/ "include_path" \notin DOMAIN rules[i]
                \/ /\ "path" \in DOMAIN node
                   /\ validate_path(node.path, rules[i].include_path) = "true"
          THEN "true" ELSE "false"

\* LogspecState.is_processable: the first rule of the kind decides.
\* "KeyError": node["path"] on a row that has no path column.
is_processable(c, node, type) ==
  IF node.origin \notin DOMAIN c THEN "false"
  ELSE LET rules == c[node.origin]
           hits == { i \in 1..Len(rules) : rules[i].type = type }
       IN IF hits = {} THEN "false"
          ELSE LET entry == rules[CHOOSE i \in hits : \A j \in hits : i <= j]
               IN IF "include_path" \in DOMAIN entry
                  THEN IF "path" \in DOMAIN node
                       THEN validate_path(node.path, entry.include_path)
                       ELSE "KeyError"
                  ELSE "true"

\* A worker that takes its allowed origins from elsewhere than the config.
get_originsBug(c) == {"originA"}

\* LogspecState.get_origins: the top-level keys of the config
get_origins(c) == DOMAIN c

\* A query without the status condition.
SelectedBug(kind, origins) ==
  { r \in Table(kind) : /\ r.age < PROCESS_DAYS
                        /\ r.log_url # NULL
                        /\ r.origin \in origins }

\* The rows the SELECT of get_unprocessed_tests / get_unprocessed_builds
\* returns: _timestamp > now - PROCESS_DAYS, log_url IS NOT NULL,
\* status != 'PASS', origin = ANY(origins).
Selected(kind, origins) ==
  { r \in Table(kind) : /\ r.age < PROCESS_DAYS
                        /\ r.log_url # NULL
                        /\ r.status # "PASS"
                        /\ r.origin \in origins }

\* fetchall returns the rows as a list; the query has no ORDER BY
Orders(S) ==
  { q \in [1..Cardinality(S) -> S] : \A i, j \in 1..Cardinality(S) : q[i] = q[j] => i = j }

(***************************************************************************)
(* The classification engine (logspec), a black box: what it reports for   *)
(* the text of each log.  text is "full" for the complete log, "trunc"     *)
(* for a truncated one, "junk" for bytes that are not the log.             *)
(***************************************************************************)
None == "None"

NoBoot == [prompt |-> FALSE, bootloader_done |-> FALSE, kernel_started |-> FALSE,
           signature |-> "sigNoBoot", errors |-> << >>]

parse_log(url, text) ==
  IF text # "full" THEN NoBoot
  ELSE CASE url = UrlT1 ->
              [prompt |-> FALSE, bootloader_done |-> TRUE, kernel_started |-> TRUE,
               signature |-> "sigBoot1",
               errors |-> << [error_type |-> "linux.kernel.panic", signature |-> "sigP"],
                             [error_type |-> "linux.kernel.error_return_code",
                              signature |-> "sigR"],
                             [error_type |-> "linux.kernel.panic", signature |-> "sigP"] >>]
         [] url = UrlT2 ->
              [prompt |-> FALSE, bootloader_done |-> TRUE, kernel_started |-> TRUE,
               signature |-> "sigBoot2", errors |-> << >>]
         [] url = UrlB1 ->
              [prompt |-> FALSE, bootloader_done |-> FALSE, kernel_started |-> FALSE,
               signature |-> "",
               errors |-> << [error_type |-> "kbuild.compiler.error",
                              signature |-> "sigC"] >>]
         [] OTHER -> NoBoot

\* test_types
test_types ==
  [build |-> [parser |-> "kbuild", incident_id_field |-> "build_id",
              build_valid |-> FALSE],
   boot |-> [parser |-> "generic_linux_boot", incident_id_field |-> "test_id",
             test_status |-> "FAIL"],
   kselftest |-> [parser |-> "test_kselftest", incident_id_field |-> "test_id",
                  test_status |-> "FAIL"]]

\* A normalizer that looks at the bootloader and the kernel before the prompt.
get_logspec_errorsBug(parsed_data, parser) ==
  LET special(summary) == [error_type |-> "linux.kernel.boot",
                           error_summary |-> summary,
                           signature |-> parsed_data.signature]
      boot == IF parser # "generic_linux_boot" THEN [l |-> << >>, s |-> None]
              ELSE IF ~parsed_data.bootloader_done \/ ~parsed_data.kernel_started
                   THEN [l |-> <<special("boot infra failure")>>, s |-> "MISS"]
              ELSE IF parsed_data.prompt
                   THEN [l |-> <<special("unclean boot")>>, s |-> "PASS"]
              ELSE [l |-> << >>, s |-> None]
  IN [errors_list |-> boot.l \o parsed_data.errors, new_status |-> boot.s]

\* A normalizer that reports the infra failure only when both the
\* bootloader and the kernel failed.
get_logspec_errorsBothBug(parsed_data, parser) ==
  LET special(summary) == [error_type |-> "linux.kernel.boot",
                           error_summary |-> summary,
                           signature |-> parsed_data.signature]
      boot == IF parser # "generic_linux_boot" THEN [l |-> << >>, s |-> None]
              ELSE IF parsed_data.prompt
                   THEN [l |-> <<special("unclean boot")>>, s |-> "PASS"]
              ELSE IF ~parsed_data.bootloader_done /\ ~parsed_data.kernel_started
                   THEN [l |-> <<special("boot infra failure")>>, s |-> "MISS"]
              ELSE [l |-> << >>, s |-> None]
  IN [errors_list |-> boot.l \o parsed_data.errors, new_status |-> boot.s]

\* get_logspec_errors: the synthetic boot finding first, then the engine's
get_logspec_errors(parsed_data, parser) ==
  LET special(summary) == [error_type |-> "linux.kernel.boot",
                           error_summary |-> summary,
                           signature |-> parsed_data.signature]
      boot == IF parser # "generic_linux_boot" THEN [l |-> << >>, s |-> None]
              ELSE IF parsed_data.prompt
                   THEN [l |-> <<special("unclean boot")>>, s |-> "PASS"]
              ELSE IF ~parsed_data.bootloader_done \/ ~parsed_data.kernel_started
                   THEN [l |-> <<special("boot infra failure")>>, s |-> "MISS"]
              ELSE [l |-> << >>, s |-> None]
  IN [errors_list |-> boot.l \o parsed_data.errors, new_status |-> boot.s]

\* An issue whose id also depends on the finding's error type.
new_issueBug(logspec_error, test_type, origin) ==
  [origin |-> origin,
   id |-> <<origin, ":", logspec_error.signature, logspec_error.error_type>>,
   version |-> 1]

\* new_issue: id = f"{origin}:{signature}", version 1; the comment is put
\* together from the summary, the target and the source file or script
\* (each if the finding has it) and "[logspec:<parser>,<error_type>]";
\* misc holds the finding without its signature.
new_issue(logspec_error, test_type, origin) ==
  LET has(f) == f \in DOMAIN logspec_error
      where == IF has("src_file") THEN <<" (", logspec_error.src_file, ")">>
               ELSE IF has("script") THEN <<" (", logspec_error.script, ")">>
               ELSE << >>
      comment ==
        (IF has("error_summary") THEN <<" ", logspec_error.error_summary>> ELSE << >>)
        \o (IF has("target") THEN <<" in ", logspec_error.target>> \o where ELSE << >>)
        \o <<" [logspec:", test_types[test_type].parser, ",",
              logspec_error.error_type, "]">>
      issue == [origin |-> origin,
                id |-> <<origin, ":", logspec_error.signature>>,
                version |-> 1,
                comment |-> comment,
                misc |-> [f \in DOMAIN logspec_error \ {"signature"} |-> logspec_error[f]],
                culprit |-> [code |-> TRUE, harness |-> FALSE, tool |-> FALSE]]
      policy == test_types[test_type]
  IN issue
     @@ (IF "build_valid" \in DOMAIN policy
         THEN [build_valid |-> policy.build_valid] ELSE << >>)
     @@ (IF "test_status" \in DOMAIN policy
         THEN [test_status |-> policy.test_status] ELSE << >>)

\* An incident id that leaves the issue version out of the hash.
new_incidentBug(result_id, issue_id, test_type, issue_version, origin) ==
  [id |-> <<origin, ":", <<"sha1", result_id, issue_id>> >>]

\* new_incident: id = f"{origin}:{sha1(json([result_id, issue_id, issue_version]))}"
new_incident(result_id, issue_id, test_type, issue_version, origin) ==
  [id |-> <<origin, ":", <<"sha1", result_id, issue_id, issue_version>> >>,
   issue_id |-> issue_id,
   issue_version |-> issue_version,
   result_field |-> test_types[test_type].incident_id_field,
   result_id |-> result_id,
   origin |-> origin]

\* A collapse that keeps the first draft only.
DedupByIdFirstBug(issues) == IF issues = << >> THEN << >> ELSE <<Head(issues)>>

\* A collapse that keeps every draft.
DedupByIdBug(issues) == issues

RECURSIVE DedupById(_)
\* list({issue["id"]: issue ...}.values()): one entry per id, at the place
\* of the id's first occurrence, holding its last occurrence
DedupById(issues) ==
  IF issues = << >> THEN << >>
  ELSE LET h == Head(issues)
           same == { i \in 1..Len(issues) : issues[i].id = h.id }
           last == issues[CHOOSE i \in same : \A j \in same : j <= i]
       IN <<last>> \o DedupById(SelectSeq(Tail(issues), LAMBDA x : x.id # h.id))

\* A loop that drops no finding.
IssuesOfBug(error_list, test_type, origin) ==
  [i \in 1..Len(error_list) |-> new_issue(error_list[i], test_type, origin)]

RECURSIVE IssuesOf(_, _, _)
IssuesOf(error_list, test_type, origin) ==
  IF error_list = << >> THEN << >>
  ELSE LET error == Head(error_list)
           rest == IssuesOf(Tail(error_list), test_type, origin)
       IN IF error.signature # "" /\ error.error_type # "linux.kernel.error_return_code"
          THEN <<new_issue(error, test_type, origin)>> \o rest
          ELSE rest

\* A loop that builds the incidents from the collapsed issue list.
generate_fromBug(result_id, error_list, test_type, origin) ==
  LET issues == DedupById(IssuesOf(error_list, test_type, origin))
      incidents == [i \in 1..Len(issues) |->
                      new_incident(result_id, issues[i].id, test_type,
                                   issues[i].version, origin)]
  IN [issue_node |-> issues, incident_node |-> incidents]

\* generate_issues_and_incidents, lines 221-239: the loop over error_list
\* and the collapse of the issues by id
generate_from(result_id, error_list, test_type, origin) ==
  LET issues == IssuesOf(error_list, test_type, origin)
      incidents == [i \in 1..Len(issues) |->
                      new_incident(result_id, issues[i].id, test_type,
                                   issues[i].version, origin)]
  IN [issue_node |-> DedupById(issues), incident_node |-> incidents]

\* The body of generate_issues_and_incidents (logspec_api.py:208-241) on
\* the text of the log file; the text "empty" makes process_log raise
\* ValueError, a truncated gzip stream makes gzip raise EOFError.
generate_issues_and_incidents(result_id, url, text, test_type, origin) ==
  IF test_type \notin DOMAIN test_types
  THEN [raised |-> FALSE, issue_node |-> << >>, incident_node |-> << >>, new_status |-> None]
  ELSE IF text \in {"empty", "gztrunc"}
  THEN [raised |-> TRUE, issue_node |-> << >>, incident_node |-> << >>, new_status |-> None]
  ELSE LET parser == test_types[test_type].parser
           res == get_logspec_errors(parse_log(url, text), parser)
           parsed_data == generate_from(result_id, res.errors_list, test_type, origin)
       IN [raised |-> FALSE, issue_node |-> parsed_data.issue_node,
           incident_node |-> parsed_data.incident_node, new_status |-> res.new_status]

(***************************************************************************)
(* File names and contents                                                 *)
(***************************************************************************)
\* hashlib.md5(log_url.encode()).hexdigest(), taken as injective on Urls
md5(log_url) == <<"md5", log_url>>

EndsWith(name, suffix) ==
  /\ Len(name) >= Len(suffix)
  /\ SubSeq(name, Len(name) - Len(suffix) + 1, Len(name)) = suffix

DotJson == <<".", "j", "s", "o", "n">>
DotTemp == <<".", "t", "e", "m", "p">>

\* A publisher that writes straight under a name ending in .json.
TempNameBug(random_part) == <<"logspec_", random_part>> \o DotJson

\* filename = f"logspec_{random_part}.json.temp"
TempName(random_part) == <<"logspec_", random_part>> \o DotJson \o DotTemp

\* filename[:-5] + ".json"
FinalName(filename) == SubSeq(filename, 1, Len(filename) - 5) \o DotJson

\* a file of a directory held as a function name -> content
Put(dir, name, content) ==
  [n \in DOMAIN dir \cup {name} |-> IF n = name THEN content ELSE dir[n]]
Remove(dir, name) == [n \in DOMAIN dir \ {name} |-> dir[n]]
\* os.rename: the target is replaced when it exists
Rename(dir, from, to) ==
  IF from = to THEN dir ELSE Remove(Put(dir, to, dir[from]), from)
EmptyDir == [n \in {} |-> 0]

\* What process_log reads from a cache file, by the file's content:
\*   "plain" the complete text, "gz" the complete gzip stream (process_log
\*   decompresses on the magic bytes), "trunc" a truncated text, "gztrunc" a
\*   truncated gzip stream, "junk" complete bytes that are not the log,
\*   "empty" no bytes.
TextOf(content) ==
  CASE content \in {"plain", "gz"} -> "full"
    [] OTHER -> content

(***************************************************************************)
(* State                                                                   *)
(***************************************************************************)
VARIABLES
  pc,          \* where the worker is; "killed" / "crashed" when it is not running
  cause,       \* why the worker crashed (the exception that reached main)
  phase,       \* "build" in process_builds, "test" in process_tests
  config_file, \* --config-file of this run
  dry_run,     \* state.dry_run
  queue,       \* the rows of the for loop not yet iterated (ids)
  cur,         \* the row being handled
  body,        \* response.content of the log being fetched
  res,         \* res_nodes
  filename,    \* the temporary spool file name of submit_to_kcidb
  processed,   \* the two shelve stores: kind -> set of ids
  cache,       \* /cache: name -> content
  spool,       \* the spool directory: name -> [rid, env, st]
  restarts,    \* how many times the worker was started again
  passes,      \* passes this run has begun after the first
  skipped,     \* history: ids this pass skipped as already processed
  qfail,       \* history: a selector query failed in this pass
  published,   \* history: id -> number of envelopes renamed to their final name
  prevEnd,     \* history: <<the spool at the end of the last pass that ran to its
               \* end with dry_run off and both queries answered>>
  call,        \* a function applied on its own: [fn, args]
  ret,         \* what it returned: << >> before the call, <<value>> after
  other,       \* a second instance of the worker on the same database,
               \* stores and directories: [pc, phase, cur, cause]
  ingester     \* the ingester on the spool directory: where it is, the names
               \* of os.listdir not yet iterated, the file in hand, the
               \* archive and failed directories, and its history

vars == <<pc, cause, phase, config_file, dry_run, queue, cur, body, res, filename,
          processed, cache, spool, restarts, passes, skipped, qfail,
          published, prevEnd, call, ret, other, ingester>>

durable == <<processed, cache, spool>>
history == <<skipped, qfail, published, prevEnd>>
\* what no step of the worker touches: the functions applied on their
\* own, the second instance, the ingester
fnvars == <<call, ret, other, ingester>>
\* no function is applied on its own while the worker runs
NoCall == [fn |-> "None", args |-> << >>]
\* no second instance runs
NoOther == [pc |-> "none", phase |-> "build", cur |-> None, cause |-> None]
\* no ingester runs
NoIngester ==
  [pc |-> "none", todo |-> {}, listed |-> {}, filename |-> None,
   archive_dir |-> EmptyDir, failed_dir |-> EmptyDir, loaded |-> << >>,
   last |-> EmptyDir, scans |-> 0, restarts |-> 0]

_cfg == load_config(config_file)

CacheName(log_url) == md5(log_url)
GzName(log_url) == md5(log_url) \o DotGz

NoRes == [issue_node |-> << >>, incident_node |-> << >>]

Started ==
  /\ pc = "process_builds"
  /\ cause = None
  /\ phase = "build"
  /\ config_file \in ConfigNames
  /\ dry_run \in BOOLEAN
  /\ queue = << >>
  /\ cur = None
  /\ body = None
  /\ res = NoRes
  /\ filename = None
  /\ processed = [k \in Kinds |-> {}]
  /\ cache = EmptyDir
  /\ spool = EmptyDir
  /\ restarts = 0
  /\ passes = 0
  /\ skipped = {}
  /\ qfail = FALSE
  /\ published = [id \in AllIds |-> 0]
  /\ prevEnd = << >>
  /\ call = NoCall
  /\ ret = << >>
  /\ ingester = NoIngester

\* one instance of the worker
Init == Started /\ other = NoOther

(***************************************************************************)
(* The processed-set stores                                                *)
(***************************************************************************)
\* A tracker that forgets: the lookup never finds a key.
is_test_processedBug(test_id) == FALSE

is_test_processed(test_id) == test_id \in processed["test"]
is_build_processed(build_id) == build_id \in processed["build"]
\* A tracker that drops the write.
set_test_processedBug(test_id) == processed

\* A tracker that keeps the last key only.
set_test_processedOverwriteBug(test_id) == [processed EXCEPT !["test"] = {test_id}]

set_test_processed(test_id) == [processed EXCEPT !["test"] = @ \cup {test_id}]
\* A tracker with one store for both kinds.
set_build_processedBug(build_id) == [k \in Kinds |-> processed[k] \cup {build_id}]

set_build_processed(build_id) == [processed EXCEPT !["build"] = @ \cup {build_id}]

is_processed(kind, id) ==
  IF kind = "test" THEN is_test_processed(id) ELSE is_build_processed(id)
\* A caller whose marker is lost.
set_processedBug(kind, id) == processed

set_processed(kind, id) ==
  IF kind = "test" THEN set_test_processed(id) ELSE set_build_processed(id)

(***************************************************************************)
(* The worker                                                              *)
(***************************************************************************)
Running == pc \notin {"killed", "crashed"}
node == Row(phase, cur)
\* process_tests passes "boot" for every test, process_builds "build"
ParserKind == IF phase = "test" THEN "boot" ELSE "build"

\* An exception (or sys.exit) leaves main's loop: the process ends.  The
\* row and the rest of the loop are kept for the record.
Raise(why) ==
  /\ pc' = "crashed"
  /\ cause' = why
  /\ body' = None
  /\ res' = NoRes
  /\ filename' = None
  /\ UNCHANGED <<phase, config_file, dry_run, queue, cur, restarts, passes>>

\* The pass is over: main sleeps.
EndPass == pc' = "sleep"

\* main, lines 478-506: a (new) run of the worker on the same directories.
\* verify_appstate (lines 458-469) opens a store only when its path is not
\* there, and then writes the one key "processed_tests" / "processed_builds",
\* which is no row's id: the keys that are ids are as they were.
main ==
  /\ ~Running
  /\ restarts < MaxRestarts
  /\ restarts' = restarts + 1
  /\ pc' = "process_builds"
  /\ cause' = None
  /\ phase' = "build"
  /\ config_file' \in ConfigNames
  /\ dry_run' \in BOOLEAN
  /\ queue' = << >>
  /\ cur' = None
  /\ body' = None
  /\ res' = NoRes
  /\ filename' = None
  /\ passes' = 0
  /\ skipped' = {}
  /\ qfail' = FALSE
  /\ prevEnd' = IF config_file' = config_file /\ ~dry_run' THEN prevEnd ELSE << >>
  /\ UNCHANGED <<durable, published>>
  /\ UNCHANGED fnvars

\* The process is stopped from outside at any point: what it held in
\* memory is gone.  Only a worker that can still be started again is
\* stopped, so that kills are counted by MaxRestarts.
Kill ==
  /\ Running
  /\ restarts < MaxRestarts
  /\ pc' = "killed"
  /\ phase' = "build"
  /\ queue' = << >>
  /\ cur' = None
  /\ body' = None
  /\ res' = NoRes
  /\ filename' = None
  /\ passes' = 0
  /\ skipped' = {}
  /\ qfail' = FALSE
  /\ prevEnd' = IF pc = "sleep"
                 THEN (IF dry_run \/ qfail THEN << >> ELSE <<spool>>)
                 ELSE prevEnd
  /\ UNCHANGED <<cause, config_file, dry_run, restarts, durable, published>>
  /\ UNCHANGED fnvars

\* process_builds, lines 419-425, with get_unprocessed_builds succeeding
process_builds ==
  /\ pc = "process_builds"
  /\ \E rows \in Orders(Selected("build", get_origins(_cfg))) :
       /\ queue' = [i \in DOMAIN rows |-> rows[i].id]
       /\ pc' = IF rows = << >> THEN "process_tests" ELSE "loop"
  /\ phase' = "build"
  /\ UNCHANGED <<cause, config_file, dry_run, cur, body, res, filename, restarts,
                 passes, durable, history>>
  /\ UNCHANGED fnvars

\* get_unprocessed_builds, lines 274-276: the exception is logged and []
\* returned, which process_builds takes for "no unprocessed builds"
get_unprocessed_builds_failed ==
  /\ pc = "process_builds"
  /\ pc' = "process_tests"
  /\ qfail' = TRUE
  /\ UNCHANGED <<cause, phase, config_file, dry_run, queue, cur, body, res, filename,
                 restarts, passes, durable, skipped, published, prevEnd>>
  /\ UNCHANGED fnvars

\* process_tests, lines 372-378, with get_unprocessed_tests succeeding
process_tests ==
  /\ pc = "process_tests"
  /\ \E rows \in Orders(Selected("test", get_origins(_cfg))) :
       /\ queue' = [i \in DOMAIN rows |-> rows[i].id]
       /\ IF rows = << >> THEN EndPass ELSE pc' = "loop"
  /\ phase' = "test"
  /\ UNCHANGED <<cause, config_file, dry_run, cur, body, res, filename, restarts,
                 passes, durable, history>>
  /\ UNCHANGED fnvars

\* get_unprocessed_tests, lines 254-256: the exception is raised again and
\* nothing up to main catches it
get_unprocessed_tests_failed ==
  /\ pc = "process_tests"
  /\ Raise("query")
  /\ qfail' = TRUE
  /\ UNCHANGED <<durable, skipped, published, prevEnd>>
  /\ UNCHANGED fnvars

\* One iteration of the for loop up to the call of logspec_process_node:
\* lines 380-395 (tests) and 426-440 (builds)
loop_iteration ==
  /\ pc = "loop"
  /\ queue # << >>
  /\ LET id == Head(queue)
         ok == is_processable(_cfg, Row(phase, id), phase)
     IN CASE ok = "false" ->
               /\ processed' = IF dry_run THEN processed ELSE set_processed(phase, id)
               /\ queue' = Tail(queue)
               /\ UNCHANGED <<pc, cause, cur, skipped, phase, config_file, dry_run,
                              body, res, filename, restarts, passes>>
          [] ok = "true" /\ is_processed(phase, id) ->
               /\ skipped' = skipped \cup {id}
               /\ queue' = Tail(queue)
               /\ UNCHANGED <<pc, cause, cur, processed, phase, config_file, dry_run,
                              body, res, filename, restarts, passes>>
          [] ok = "true" /\ ~is_processed(phase, id) ->
               /\ cur' = id
               /\ queue' = Tail(queue)
               /\ pc' = "fetch_log_id"
               /\ UNCHANGED <<cause, skipped, processed, phase, config_file, dry_run,
                              body, res, filename, restarts, passes>>
          [] OTHER ->
               /\ cur' = id
               /\ queue' = Tail(queue)
               /\ pc' = "crashed"
               /\ cause' = ok
               /\ UNCHANGED <<skipped, processed, phase, config_file, dry_run,
                              body, res, filename, restarts, passes>>
  /\ UNCHANGED <<cache, spool, qfail, published, prevEnd>>
  /\ UNCHANGED fnvars

\* A loop that may be left with rows still in it.
loop_doneBug ==
  /\ pc = "loop"
  /\ IF phase = "build" THEN pc' = "process_tests" ELSE EndPass
  /\ UNCHANGED <<cause, phase, config_file, dry_run, queue, cur, body, res, filename,
                 restarts, passes, durable, history>>
  /\ UNCHANGED fnvars

\* The for loop is over: process_builds returns to main, which calls
\* process_tests; process_tests returns to main, which sleeps.
loop_done ==
  /\ pc = "loop"
  /\ queue = << >>
  /\ IF phase = "build" THEN pc' = "process_tests" ELSE EndPass
  /\ UNCHANGED <<cause, phase, config_file, dry_run, queue, cur, body, res, filename,
                 restarts, passes, durable, history>>
  /\ UNCHANGED fnvars

\* main, lines 510-514: the sleep is over, the next pass begins
sleep ==
  /\ pc = "sleep"
  /\ passes < MaxPasses
  /\ passes' = passes + 1
  /\ pc' = "process_builds"
  /\ phase' = "build"
  /\ skipped' = {}
  /\ qfail' = FALSE
  /\ prevEnd' = IF dry_run \/ qfail THEN << >> ELSE <<spool>>
  /\ UNCHANGED <<cause, config_file, dry_run, queue, cur, body, res, filename,
                 restarts, durable, published>>
  /\ UNCHANGED fnvars

(***************************************************************************)
(* fetch_log_id, called by logspec_process_node (line 317)                 *)
(***************************************************************************)
log_url == node.log_url
cache_file == CacheName(log_url)

\* response.content of a 200 answer: the log ("gz" when the URL names a
\* gzip file), or, for a gzip URL, bytes that are not a gzip stream
Bodies(url) == IF EndsWith(url, DotGz) THEN {"gz", "junk"} ELSE {"plain"}
\* a write cut short
Partial(content) == IF content = "gz" THEN "gztrunc" ELSE "trunc"

fetch_frame == <<cause, phase, config_file, dry_run, queue, cur, res, filename,
                 processed, spool, restarts, passes, history>>

\* A caller that marks the Result although its log could not be fetched.
fetch_failedBug ==
  /\ Raise("fetch")
  /\ processed' = set_processed(phase, cur)
  /\ UNCHANGED <<spool, history>>

\* logspec_process_node, lines 320-322, and the caller's
\* "res_nodes, new_status = None": TypeError, caught nowhere
fetch_failed ==
  /\ Raise("fetch")
  /\ UNCHANGED <<processed, spool, history>>

\* lines 283-285: the cache file exists, the log id is returned
fetch_log_id_hit ==
  /\ pc = "fetch_log_id"
  /\ cache_file \in DOMAIN cache
  /\ pc' = "generate"
  /\ UNCHANGED <<body, cache, fetch_frame>>
  /\ UNCHANGED fnvars

\* lines 288-289: requests.get answers 200
fetch_log_id_get ==
  /\ pc = "fetch_log_id"
  /\ cache_file \notin DOMAIN cache
  /\ \E b \in Bodies(log_url) : body' = b
  /\ pc' = "fetch_open"
  /\ UNCHANGED <<cache, fetch_frame>>
  /\ UNCHANGED fnvars

\* lines 303-308: another status code, or requests.get raises: None
fetch_log_id_get_failed ==
  /\ pc = "fetch_log_id"
  /\ cache_file \notin DOMAIN cache
  /\ fetch_failed
  /\ UNCHANGED cache
  /\ UNCHANGED fnvars

\* line 291: open(cache_file, "wb") creates the file, empty
fetch_log_id_open ==
  /\ pc = "fetch_open"
  /\ cache' = Put(cache, cache_file, "empty")
  /\ pc' = "fetch_write"
  /\ UNCHANGED <<body, fetch_frame>>
  /\ UNCHANGED fnvars

\* line 292, under way: part of the bytes are in the file
fetch_log_id_write_part ==
  /\ pc = "fetch_write"
  /\ cache[cache_file] = "empty"
  /\ cache' = Put(cache, cache_file, Partial(body))
  /\ UNCHANGED <<pc, body, fetch_frame>>
  /\ UNCHANGED fnvars

\* lines 292-295 and 302: the bytes are written and the file closed
fetch_log_id_write ==
  /\ pc = "fetch_write"
  /\ cache' = Put(cache, cache_file, body)
  /\ IF EndsWith(log_url, DotGz)
     THEN pc' = "fetch_rename" /\ UNCHANGED body
     ELSE pc' = "generate" /\ body' = None
  /\ UNCHANGED fetch_frame
  /\ UNCHANGED fnvars

\* line 297: os.rename(cache_file, cache_file + ".gz")
fetch_log_id_rename ==
  /\ pc = "fetch_rename"
  /\ cache' = Rename(cache, cache_file, GzName(log_url))
  /\ pc' = "fetch_gunzip_open"
  /\ UNCHANGED <<body, fetch_frame>>
  /\ UNCHANGED fnvars

\* lines 298-299: gzip.open of the .gz file, open(cache_file, "wb")
fetch_log_id_gunzip_open ==
  /\ pc = "fetch_gunzip_open"
  /\ cache' = Put(cache, cache_file, "empty")
  /\ pc' = "fetch_gunzip"
  /\ UNCHANGED <<body, fetch_frame>>
  /\ UNCHANGED fnvars

\* line 300, under way
fetch_log_id_gunzip_part ==
  /\ pc = "fetch_gunzip"
  /\ cache[GzName(log_url)] = "gz"
  /\ cache[cache_file] = "empty"
  /\ cache' = Put(cache, cache_file, "trunc")
  /\ UNCHANGED <<pc, body, fetch_frame>>
  /\ UNCHANGED fnvars

\* line 300: f_out.write(f_in.read())
fetch_log_id_gunzip ==
  /\ pc = "fetch_gunzip"
  /\ cache[GzName(log_url)] = "gz"
  /\ cache' = Put(cache, cache_file, "plain")
  /\ pc' = "fetch_remove"
  /\ UNCHANGED <<body, fetch_frame>>
  /\ UNCHANGED fnvars

\* line 300 on bytes that are no gzip stream: gzip raises, lines 306-308
\* return None; both files stay
fetch_log_id_gunzip_failed ==
  /\ pc = "fetch_gunzip"
  /\ cache[GzName(log_url)] # "gz"
  /\ fetch_failed
  /\ UNCHANGED cache
  /\ UNCHANGED fnvars

\* lines 301-302: os.remove(cache_file + ".gz"), the log id is returned
fetch_log_id_remove ==
  /\ pc = "fetch_remove"
  /\ cache' = Remove(cache, GzName(log_url))
  /\ pc' = "generate"
  /\ body' = None
  /\ UNCHANGED fetch_frame
  /\ UNCHANGED fnvars

fetch_log_id ==
  \/ fetch_log_id_hit
  \/ fetch_log_id_get
  \/ fetch_log_id_get_failed
  \/ fetch_log_id_open
  \/ fetch_log_id_write_part
  \/ fetch_log_id_write
  \/ fetch_log_id_rename
  \/ fetch_log_id_gunzip_open
  \/ fetch_log_id_gunzip_part
  \/ fetch_log_id_gunzip
  \/ fetch_log_id_gunzip_failed
  \/ fetch_log_id_remove

(***************************************************************************)
(* logspec_process_node, line 324: the call                                *)
(***************************************************************************)
\* Five arguments for four parameters: TypeError before the body runs.
logspec_process_node ==
  /\ pc = "generate"
  /\ GenerateArgs # GenerateParams
  /\ Raise("call")
  /\ UNCHANGED <<durable, history>>
  /\ UNCHANGED fnvars

\* A caller that hands every result to the publisher.
generateBug ==
  /\ pc = "generate"
  /\ LET r == generate_issues_and_incidents(cur, log_url, TextOf(cache[cache_file]),
                                            ParserKind, node.origin)
     IN IF r.raised
        THEN Raise("classify")
        ELSE /\ res' = [issue_node |-> r.issue_node, incident_node |-> r.incident_node]
             /\ pc' = IF ~dry_run THEN "submit_to_kcidb" ELSE "mark"
             /\ UNCHANGED <<cause, phase, config_file, dry_run, queue, cur, body,
                            filename, restarts, passes>>
  /\ UNCHANGED <<durable, history>>
  /\ UNCHANGED fnvars

\* The call taken to bind: the body of generate_issues_and_incidents runs
\* on the cache file, then lines 399-408 / 443-452 choose the next step.
generate ==
  /\ pc = "generate"
  /\ LET r == generate_issues_and_incidents(cur, log_url, TextOf(cache[cache_file]),
                                            ParserKind, node.origin)
     IN IF r.raised
        THEN Raise("classify")
        ELSE /\ res' = [issue_node |-> r.issue_node, incident_node |-> r.incident_node]
             /\ pc' = IF (r.issue_node # << >> \/ r.incident_node # << >>) /\ ~dry_run
                      THEN "submit_to_kcidb" ELSE "mark"
             /\ UNCHANGED <<cause, phase, config_file, dry_run, queue, cur, body,
                            filename, restarts, passes>>
  /\ UNCHANGED <<durable, history>>
  /\ UNCHANGED fnvars

(***************************************************************************)
(* submit_to_kcidb                                                         *)
(***************************************************************************)
submit_frame == <<cause, phase, config_file, dry_run, queue, cur, body, res,
                  processed, cache, restarts, passes, skipped, qfail, prevEnd>>

\* lines 342-359: the envelope is built, the name drawn, the file opened
submit_to_kcidb_open ==
  /\ pc = "submit_to_kcidb"
  /\ \E random_part \in RandomParts :
       /\ filename' = TempName(random_part)
       /\ spool' = Put(spool, filename', [rid |-> cur, env |-> res, st |-> "empty"])
  /\ pc' = "submit_write"
  /\ UNCHANGED <<published, submit_frame>>
  /\ UNCHANGED fnvars

\* line 360, under way
submit_to_kcidb_write_part ==
  /\ pc = "submit_write"
  /\ spool[filename].st = "empty"
  /\ spool' = Put(spool, filename, [spool[filename] EXCEPT !.st = "trunc"])
  /\ UNCHANGED <<pc, filename, published, submit_frame>>
  /\ UNCHANGED fnvars

\* A publisher that returns after the write, the file left under its
\* temporary name.
submit_to_kcidb_writeBug ==
  /\ pc = "submit_write"
  /\ spool' = Put(spool, filename, [spool[filename] EXCEPT !.st = "full"])
  /\ pc' = "mark"
  /\ filename' = None
  /\ UNCHANGED <<published, submit_frame>>
  /\ UNCHANGED fnvars

\* line 360: f.write(raw_json), the file closed
submit_to_kcidb_write ==
  /\ pc = "submit_write"
  /\ spool' = Put(spool, filename, [spool[filename] EXCEPT !.st = "full"])
  /\ pc' = "submit_rename"
  /\ UNCHANGED <<filename, published, submit_frame>>
  /\ UNCHANGED fnvars

\* lines 362-365: os.rename to the final name
submit_to_kcidb_rename ==
  /\ pc = "submit_rename"
  /\ spool' = Rename(spool, filename, FinalName(filename))
  /\ published' = [published EXCEPT ![cur] = @ + 1]
  /\ filename' = None
  /\ pc' = "mark"
  /\ UNCHANGED submit_frame
  /\ UNCHANGED fnvars

submit_to_kcidb ==
  \/ submit_to_kcidb_open
  \/ submit_to_kcidb_write_part
  \/ submit_to_kcidb_write
  \/ submit_to_kcidb_rename

\* A caller that marks the Result in dry-run mode too.
mark_processedBug ==
  /\ pc = "mark"
  /\ processed' = set_processed(phase, cur)
  /\ pc' = "loop"
  /\ cur' = None
  /\ res' = NoRes
  /\ UNCHANGED <<cause, phase, config_file, dry_run, queue, body, filename, cache,
                 spool, restarts, passes, history>>
  /\ UNCHANGED fnvars


\* A caller that marks only the Results that had findings.
mark_processedFindingsBug ==
  /\ pc = "mark"
  /\ processed' = IF dry_run \/ res = NoRes THEN processed ELSE set_processed(phase, cur)
  /\ pc' = "loop"
  /\ cur' = None
  /\ res' = NoRes
  /\ UNCHANGED <<cause, phase, config_file, dry_run, queue, body, filename, cache,
                 spool, restarts, passes, history>>
  /\ UNCHANGED fnvars

\* lines 410-412 / 453-455: the row is marked unless dry_run
mark_processed ==
  /\ pc = "mark"
  /\ processed' = IF dry_run THEN processed ELSE set_processed(phase, cur)
  /\ pc' = "loop"
  /\ cur' = None
  /\ res' = NoRes
  /\ UNCHANGED <<cause, phase, config_file, dry_run, queue, body, filename, cache,
                 spool, restarts, passes, history>>
  /\ UNCHANGED fnvars

\* where the worker is while it fetches, publishes, handles a row
FetchPcs == {"fetch_log_id", "fetch_open", "fetch_write", "fetch_rename",
             "fetch_gunzip_open", "fetch_gunzip", "fetch_remove"}
SubmitPcs == {"submit_to_kcidb", "submit_write", "submit_rename"}
HandlingPcs == FetchPcs \cup {"generate"} \cup SubmitPcs \cup {"mark"}

(***************************************************************************)
(* A second instance of the worker, started with the same arguments on     *)
(* the same database, stores and directories.  Its steps are those of the  *)
(* code above taken whole: an iteration of the for loop up to the call of  *)
(* logspec_process_node, fetch_log_id, the call of line 324.  It writes a  *)
(* cache file only while the first instance is not writing one.            *)
(***************************************************************************)
other_node == Row(other.phase, other.cur)
other_cache_file == CacheName(other_node.log_url)
other_frame == <<pc, cause, phase, config_file, dry_run, queue, cur, body, res,
                 filename, restarts, passes, history, call, ret, ingester>>

\* lines 380-395 / 426-440 on a row of either query
other_loop_iteration ==
  /\ other.pc = "loop"
  /\ \E kind \in Kinds :
       \E r \in Selected(kind, get_origins(_cfg)) :
         LET ok == is_processable(_cfg, r, kind)
         IN CASE ok = "false" ->
                   /\ ~dry_run
                   /\ processed' = set_processed(kind, r.id)
                   /\ UNCHANGED other
              [] ok = "true" ->
                   /\ ~is_processed(kind, r.id)
                   /\ other' = [pc |-> "fetch_log_id", phase |-> kind, cur |-> r.id,
                               cause |-> None]
                   /\ UNCHANGED processed
              [] OTHER ->
                   /\ other' = [pc |-> "crashed", phase |-> kind, cur |-> r.id,
                               cause |-> ok]
                   /\ UNCHANGED processed
  /\ UNCHANGED <<cache, spool, other_frame>>

\* fetch_log_id, lines 281-308, and lines 320-322 with the caller's unpacking
other_fetch_log_id ==
  /\ other.pc = "fetch_log_id"
  /\ LET url == other_node.log_url
     IN IF other_cache_file \in DOMAIN cache
        THEN other' = [other EXCEPT !.pc = "generate"] /\ UNCHANGED cache
        ELSE \/ other' = [other EXCEPT !.pc = "crashed", !.cause = "fetch"]
                /\ UNCHANGED cache
             \/ /\ pc \notin FetchPcs \ {"fetch_log_id"}
                /\ \E b \in Bodies(url) :
                     IF b = "junk"
                     THEN /\ cache' = Put(Put(cache, other_cache_file, "empty"),
                                          GzName(url), b)
                          /\ other' = [other EXCEPT !.pc = "crashed", !.cause = "fetch"]
                     ELSE /\ cache' = Remove(Put(cache, other_cache_file, "plain"),
                                             GzName(url))
                          /\ other' = [other EXCEPT !.pc = "generate"]
  /\ UNCHANGED <<processed, spool, other_frame>>

\* line 324: five arguments for four parameters
other_logspec_process_node ==
  /\ other.pc = "generate"
  /\ GenerateArgs # GenerateParams
  /\ other' = [other EXCEPT !.pc = "crashed", !.cause = "call"]
  /\ UNCHANGED <<durable, other_frame>>

\* The call taken to bind, then lines 399-408 / 443-452: the envelope is
\* written and renamed.  The cache file is read as empty when the first
\* instance has renamed it away (line 297): open raises.
other_generate ==
  /\ other.pc = "generate"
  /\ LET text == IF other_cache_file \in DOMAIN cache
                 THEN TextOf(cache[other_cache_file]) ELSE "empty"
         r == generate_issues_and_incidents(other.cur, other_node.log_url, text,
                  IF other.phase = "test" THEN "boot" ELSE "build", other_node.origin)
     IN IF r.raised
        THEN /\ other' = [other EXCEPT !.pc = "crashed", !.cause = "classify"]
             /\ UNCHANGED <<spool, published>>
        ELSE /\ other' = [other EXCEPT !.pc = "mark"]
             /\ IF (r.issue_node # << >> \/ r.incident_node # << >>) /\ ~dry_run
                THEN /\ \E random_part \in RandomParts :
                          spool' = Put(spool, FinalName(TempName(random_part)),
                                       [rid |-> other.cur,
                                        env |-> [issue_node |-> r.issue_node,
                                                 incident_node |-> r.incident_node],
                                        st |-> "full"])
                     /\ published' = [published EXCEPT ![other.cur] = @ + 1]
                ELSE UNCHANGED <<spool, published>>
  /\ UNCHANGED <<processed, cache, pc, cause, phase, config_file, dry_run, queue, cur,
                 body, res, filename, restarts, passes, skipped, qfail, prevEnd,
                 call, ret, ingester>>

\* lines 410-412 / 453-455
other_mark_processed ==
  /\ other.pc = "mark"
  /\ processed' = IF dry_run THEN processed ELSE set_processed(other.phase, other.cur)
  /\ other' = [pc |-> "loop", phase |-> "build", cur |-> None, cause |-> None]
  /\ UNCHANGED <<cache, spool, other_frame>>

(***************************************************************************)
(* Specifications                                                          *)
(***************************************************************************)
Next ==
  \/ main
  \/ Kill
  \/ process_builds
  \/ get_unprocessed_builds_failed
  \/ process_tests
  \/ get_unprocessed_tests_failed
  \/ loop_iteration
  \/ loop_done
  \/ sleep
  \/ fetch_log_id
  \/ logspec_process_node

\* the program
Spec == Init /\ [][Next]_vars

NextEnv ==
  \/ Next
  \/ generate
  \/ submit_to_kcidb
  \/ mark_processed

\* the program, and the runs in which the call of line 324 binds
SpecEnv == Init /\ [][NextEnv]_vars

\* two instances of the program
InitTwo ==
  Started /\ other = [pc |-> "loop", phase |-> "build", cur |-> None, cause |-> None]

NextTwo ==
  \/ Next
  \/ other_loop_iteration
  \/ other_fetch_log_id
  \/ other_logspec_process_node

SpecTwo == InitTwo /\ [][NextTwo]_vars

NextTwoEnv ==
  \/ NextEnv
  \/ other_loop_iteration
  \/ other_fetch_log_id
  \/ other_logspec_process_node
  \/ other_generate
  \/ other_mark_processed

\* two instances, and the runs in which the call of line 324 binds
SpecTwoEnv == InitTwo /\ [][NextTwoEnv]_vars

(***************************************************************************)
(* The ingester (src/ingester/ingester.py) on the spool directory, with    *)
(* the worker about to publish the envelope of build b1.  Other producers  *)
(* have left a complete file, an empty one and a partial ".temp" one.      *)
(* What validate, upgrade and load do with a file is the database's and    *)
(* the schema's business: either outcome.  ingester.loaded is the list of  *)
(* the files db_client.load took, ingester.last the outcome of the latest  *)
(* attempt on each name.                                                   *)
(***************************************************************************)
FailedDirName == <<"failed">>
ArchiveDirName == <<"archive">>
\* os.path.isdir(os.path.join(spool_dir, filename))
isdir(name) == name \in {FailedDirName, ArchiveDirName}

\* A scan that takes every file.
endswith_jsonBug(name) == TRUE

\* filename.endswith(".json")
endswith_json(name) == EndsWith(name, DotJson)

ForeignJson == <<"a">> \o DotJson
ForeignEmpty == <<"e">> \o DotJson
ForeignTemp == <<"p">> \o DotJson \o DotTemp
ForeignFiles ==
  Put(Put(Put(EmptyDir,
     ForeignJson, [rid |-> None, env |-> NoRes, st |-> "full"]),
     ForeignEmpty, [rid |-> None, env |-> NoRes, st |-> "empty"]),
     ForeignTemp, [rid |-> None, env |-> NoRes, st |-> "trunc"])

ing_frame == <<pc, cause, phase, config_file, dry_run, queue, cur, body, res, filename,
               processed, cache, restarts, passes, history, call, ret, other>>

\* line 71: os.listdir(spool_dir), the two subdirectories included
ingest_submissions_listdir ==
  /\ ingester.pc = "listdir"
  /\ LET names == DOMAIN spool \cup {FailedDirName, ArchiveDirName}
     IN ingester' = [ingester EXCEPT !.pc = "next", !.todo = names, !.listed = names]
  /\ UNCHANGED <<spool, ing_frame>>

\* lines 71-78: the next name of the listing, in any order; directories
\* and names that do not end in .json are passed over
ingest_submissions_next ==
  /\ ingester.pc = "next"
  /\ \E name \in ingester.todo :
       ingester' = IF isdir(name) \/ ~endswith_json(name)
                   THEN [ingester EXCEPT !.todo = @ \ {name}]
                   ELSE [ingester EXCEPT !.todo = @ \ {name}, !.filename = name,
                                         !.pc = "open"]
  /\ UNCHANGED <<spool, ing_frame>>

\* lines 80-86: the file is opened; an empty one is removed
ingest_submissions_open ==
  /\ ingester.pc = "open"
  /\ IF spool[ingester.filename].st = "empty"
     THEN /\ spool' = Remove(spool, ingester.filename)
          /\ ingester' = [ingester EXCEPT !.pc = "next", !.filename = None]
     ELSE /\ ingester' = [ingester EXCEPT !.pc = "load"]
          /\ UNCHANGED spool
  /\ UNCHANGED ing_frame

\* lines 90-96: json.loads, validate, upgrade, load: all succeed, or one
\* of them raises
ingest_submissions_load ==
  /\ ingester.pc = "load"
  /\ \/ ingester' = [ingester EXCEPT
                       !.pc = "archive",
                       !.loaded = Append(@, ingester.filename),
                       !.last = Put(@, ingester.filename, "loaded")]
     \/ ingester' = [ingester EXCEPT
                       !.pc = "failed",
                       !.last = Put(@, ingester.filename, "raised")]
  /\ UNCHANGED <<spool, ing_frame>>

\* A handler that archives the file it could not load.
move_file_to_failed_dirBug ==
  /\ ingester.pc = "failed"
  /\ spool' = Remove(spool, ingester.filename)
  /\ ingester' = [ingester EXCEPT
                    !.pc = "next", !.filename = None,
                    !.archive_dir = Put(@, ingester.filename, spool[ingester.filename])]
  /\ UNCHANGED ing_frame

\* lines 99-100 and 56-61: os.rename into failed/, then continue
move_file_to_failed_dir ==
  /\ ingester.pc = "failed"
  /\ spool' = Remove(spool, ingester.filename)
  /\ ingester' = [ingester EXCEPT
                    !.pc = "next", !.filename = None,
                    !.failed_dir = Put(@, ingester.filename, spool[ingester.filename])]
  /\ UNCHANGED ing_frame

\* line 105: os.rename into archive/
ingest_submissions_archive ==
  /\ ingester.pc = "archive"
  /\ spool' = Remove(spool, ingester.filename)
  /\ ingester' = [ingester EXCEPT
                    !.pc = "next", !.filename = None,
                    !.archive_dir = Put(@, ingester.filename, spool[ingester.filename])]
  /\ UNCHANGED ing_frame

\* the for loop is over: ingest_submissions returns
ingest_submissions_done ==
  /\ ingester.pc = "next"
  /\ ingester.todo = {}
  /\ ingester' = [ingester EXCEPT !.pc = "sleep"]
  /\ UNCHANGED <<spool, ing_frame>>

\* main, lines 152-154: time.sleep(1), then the next scan
ingester_sleep ==
  /\ ingester.pc = "sleep"
  /\ ingester.scans < MaxScans
  /\ ingester' = [ingester EXCEPT !.pc = "listdir", !.scans = @ + 1, !.listed = {}]
  /\ UNCHANGED <<spool, ing_frame>>

\* The ingester is stopped from outside at any point: what it held in
\* memory is gone, the directories and the database are as they were.
ingester_Kill ==
  /\ ingester.pc \notin {"none", "killed"}
  /\ ingester.restarts < MaxIngesterRestarts
  /\ ingester' = [ingester EXCEPT !.pc = "killed", !.todo = {}, !.listed = {},
                                  !.filename = None, !.scans = 0]
  /\ UNCHANGED <<spool, ing_frame>>

\* main, lines 136-153: the ingester is started again
ingester_main ==
  /\ ingester.pc = "killed"
  /\ ingester' = [ingester EXCEPT !.pc = "listdir", !.restarts = @ + 1]
  /\ UNCHANGED <<spool, ing_frame>>

ingest_submissions ==
  \/ ingest_submissions_listdir
  \/ ingest_submissions_next
  \/ ingest_submissions_open
  \/ ingest_submissions_load
  \/ move_file_to_failed_dir
  \/ ingest_submissions_archive
  \/ ingest_submissions_done

\* The worker has fetched and classified the log of b1 in its first pass
\* and calls submit_to_kcidb; the ingester starts.
InitIngest ==
  /\ pc = "submit_to_kcidb"
  /\ cause = None
  /\ phase = "build"
  /\ config_file = "all"
  /\ dry_run = FALSE
  /\ queue = << >>
  /\ cur = "b1"
  /\ body = None
  /\ LET r == generate_issues_and_incidents("b1", UrlB1, "full", "build",
                                            Row("build", "b1").origin)
     IN res = [issue_node |-> r.issue_node, incident_node |-> r.incident_node]
  /\ filename = None
  /\ processed = [k \in Kinds |-> {}]
  /\ cache = Put(EmptyDir, CacheName(UrlB1), "plain")
  /\ spool = ForeignFiles
  /\ restarts = 0
  /\ passes = 0
  /\ skipped = {}
  /\ qfail = FALSE
  /\ published = [id \in AllIds |-> 0]
  /\ prevEnd = << >>
  /\ call = NoCall
  /\ ret = << >>
  /\ other = NoOther
  /\ ingester = [NoIngester EXCEPT !.pc = "listdir"]

NextIngest ==
  \/ submit_to_kcidb
  \/ mark_processed
  \/ Kill
  \/ ingest_submissions
  \/ ingester_sleep
  \/ ingester_Kill
  \/ ingester_main

\* the publisher and the ingester on one spool directory
SpecIngest == InitIngest /\ [][NextIngest]_vars

(***************************************************************************)
(* Functions applied on their own                                          *)
(*                                                                         *)
(* SpecFn  applies one function of the program to one input drawn from a   *)
(*         bounded set, while the worker is not running: call holds the    *)
(*         function's name and arguments, ret its result.                  *)
(***************************************************************************)
progvars == <<pc, cause, phase, config_file, dry_run, queue, cur, body, res, filename,
              processed, cache, spool, restarts, passes, skipped, qfail,
              published, prevEnd>>

\* the worker has not been started
Stopped ==
  /\ pc = "killed"
  /\ cause = None
  /\ phase = "build"
  /\ config_file = "absent"
  /\ dry_run = FALSE
  /\ queue = << >>
  /\ cur = None
  /\ body = None
  /\ res = NoRes
  /\ filename = None
  /\ cache = EmptyDir
  /\ spool = EmptyDir
  /\ restarts = 0
  /\ passes = 0
  /\ skipped = {}
  /\ qfail = FALSE
  /\ published = [id \in AllIds |-> 0]
  /\ prevEnd = << >>

\* state.is_processable(row, kind) under each config, for each row of the
\* kind's table: <<config file, kind, id>>
IsProcessableArgs ==
  { a \in FnConfigNames \X Kinds \X AllIds : a[3] \in Ids(a[2]) }

\* Findings as get_logspec_errors hands them on, by number: the same
\* signature under different types and attributes, a second signature, a
\* finding of the noise type, a finding without signature.
FnFindings ==
  << [error_type |-> "linux.kernel.panic", signature |-> "sigP"],
     [error_type |-> "linux.kernel.panic", signature |-> "sigP",
      error_summary |-> "Kernel panic", log_excerpt |-> "excerpt 2"],
     [error_type |-> "kbuild.compiler.error", signature |-> "sigP",
      error_summary |-> "error: x undeclared", target |-> "vmlinux",
      src_file |-> "a.c", log_excerpt |-> "excerpt 3"],
     [error_type |-> "linux.kernel.panic", signature |-> "sigQ",
      target |-> "modules", script |-> "s.sh"],
     [error_type |-> "linux.kernel.error_return_code", signature |-> "sigP"],
     [error_type |-> "linux.kernel.panic", signature |-> ""] >>

FnOrigins == {"originA", "originB"}
FnResultIds == {"t1", "t2"}
FnIssueIds == { <<"originA", ":", "sigP">>, <<"originA", ":", "sigQ">> }
FnVersions == {1, 2}

\* new_issue on two findings: <<finding, kind, finding, kind, origin>>
NewIssueArgs ==
  (1..Len(FnFindings)) \X (DOMAIN test_types) \X (1..Len(FnFindings))
    \X (DOMAIN test_types) \X FnOrigins

\* new_incident twice: <<result_id, issue_id, issue_version, origin>> twice,
\* then the kind
NewIncidentArgs ==
  FnResultIds \X FnIssueIds \X FnVersions \X FnOrigins
    \X FnResultIds \X FnIssueIds \X FnVersions \X FnOrigins \X {"build", "boot"}

\* the batches: lists of at most MaxBatch findings
Batches == UNION { [1..n -> 1..Len(FnFindings)] : n \in 0..MaxBatch }

\* the loop of generate_issues_and_incidents on a batch:
\* <<batch, kind, result_id, origin>>
GenerateFromArgs == Batches \X {"build", "boot"} \X {"t1"} \X {"originA"}

call_is_processable ==
  /\ call.fn = "is_processable"
  /\ ret = << >>
  /\ ret' = << is_processable(load_config(call.args[1]),
                              Row(call.args[2], call.args[3]), call.args[2]) >>
  /\ UNCHANGED <<call, other, ingester, progvars>>

call_new_issue ==
  /\ call.fn = "new_issue"
  /\ ret = << >>
  /\ ret' = << << new_issue(FnFindings[call.args[1]], call.args[2], call.args[5]),
                  new_issue(FnFindings[call.args[3]], call.args[4], call.args[5]) >> >>
  /\ UNCHANGED <<call, other, ingester, progvars>>

call_new_incident ==
  /\ call.fn = "new_incident"
  /\ ret = << >>
  /\ LET a == call.args
     IN ret' = << << new_incident(a[1], a[2], a[9], a[3], a[4]),
                     new_incident(a[5], a[6], a[9], a[7], a[8]) >> >>
  /\ UNCHANGED <<call, other, ingester, progvars>>

\* a field of the parsed state: True, False, or not there
FieldValues == {"True", "False", None}

\* parsed_data.get(field) taken as a condition
Truthy(v) == v = "True"

\* what the engine found besides: nothing, a panic, a noise finding
EngineErrors == {<< >>, <<1>>, <<5>>}

\* get_logspec_errors on each parsed state: <<linux.boot.prompt,
\* bootloader.done, linux.boot.kernel_started, parser, errors>>
GetLogspecErrorsArgs ==
  FieldValues \X FieldValues \X FieldValues
    \X { test_types[t].parser : t \in DOMAIN test_types } \X EngineErrors

ParsedData(args) ==
  [prompt |-> Truthy(args[1]), bootloader_done |-> Truthy(args[2]),
   kernel_started |-> Truthy(args[3]), signature |-> "sigBoot",
   errors |-> [i \in 1..Len(args[5]) |-> FnFindings[args[5][i]]]]

call_get_logspec_errors ==
  /\ call.fn = "get_logspec_errors"
  /\ ret = << >>
  /\ ret' = << get_logspec_errors(ParsedData(call.args), call.args[4]) >>
  /\ UNCHANGED <<call, other, ingester, progvars>>

\* the two stores before a call: any keys among a test's id and a build's
FnStores == [Kinds -> SUBSET {"t1", "b1"}]

\* set_test_processed / set_build_processed called twice with one id:
\* <<kind, id, the stores before>>
SetProcessedArgs == Kinds \X {"t1", "b1"} \X FnStores

call_set_processed ==
  /\ call.fn = "set_processed"
  /\ Len(ret) < 2
  /\ processed' = set_processed(call.args[1], call.args[2])
  /\ ret' = Append(ret, processed')
  /\ UNCHANGED <<call, other, ingester, pc, cause, phase, config_file, dry_run, queue, cur, body, res,
                 filename, cache, spool, restarts, passes, skipped, qfail,
                 published, prevEnd>>

call_generate ==
  /\ call.fn = "generate"
  /\ ret = << >>
  /\ LET error_list == [i \in 1..Len(call.args[1]) |-> FnFindings[call.args[1][i]]]
     IN ret' = << generate_from(call.args[3], error_list, call.args[2], call.args[4]) >>
  /\ UNCHANGED <<call, other, ingester, progvars>>

InitFn ==
  /\ Stopped
  /\ other = NoOther
  /\ ingester = NoIngester
  /\ ret = << >>
  /\ \/ /\ processed = [k \in Kinds |-> {}]
        /\ \/ \E a \in IsProcessableArgs : call = [fn |-> "is_processable", args |-> a]
           \/ \E a \in NewIssueArgs : call = [fn |-> "new_issue", args |-> a]
           \/ \E a \in NewIncidentArgs : call = [fn |-> "new_incident", args |-> a]
           \/ \E a \in GenerateFromArgs : call = [fn |-> "generate", args |-> a]
           \/ \E a \in GetLogspecErrorsArgs :
                 call = [fn |-> "get_logspec_errors", args |-> a]
     \/ \E a \in SetProcessedArgs :
           /\ call = [fn |-> "set_processed", args |-> a]
           /\ processed = a[3]

NextFn ==
  \/ call_is_processable
  \/ call_new_issue
  \/ call_new_incident
  \/ call_generate
  \/ call_get_logspec_errors
  \/ call_set_processed

SpecFn == InitFn /\ [][NextFn]_vars

(***************************************************************************)
(* Properties                                                              *)
(***************************************************************************)
\* the worker is between the call of logspec_process_node for cur and the
\* end of cur's iteration
JsonFiles(dir) == { n \in DOMAIN dir : EndsWith(n, DotJson) }

\* C1: with dry-run off, when a pass whose two queries were answered ends
\* after an earlier such pass over the same database, config and stores,
\* the spool holds exactly the files it held at the end of the earlier pass.
C1_IdempotentDelivery ==
  (pc = "sleep" /\ ~dry_run /\ ~qfail /\ prevEnd # << >>) => spool = prevEnd[1]

\* a second pass of one run has ended and the first had published
C1_Witness ==
  /\ pc = "sleep" /\ ~dry_run /\ ~qfail /\ passes >= 1
  /\ prevEnd # << >>
  /\ JsonFiles(spool) # {}

\* C2: no file of the spool whose name ends in ".json" holds anything but a
\* completely written envelope, at every step of submit_to_kcidb and after
\* the worker is stopped at any of them.
C2_AtomicPublish ==
  \A n \in JsonFiles(spool) : spool[n].st = "full"

\* the worker was stopped before the rename, leaving a partial ".temp" file
C2_Witness ==
  /\ pc = "killed"
  /\ \E n \in DOMAIN spool : EndsWith(n, DotTemp) /\ spool[n].st # "full"

\* the classification of cur's cached log yields an Issue or an Incident
Deliverable ==
  /\ cache_file \in DOMAIN cache
  /\ LET r == generate_issues_and_incidents(cur, log_url, TextOf(cache[cache_file]),
                                            ParserKind, node.origin)
     IN ~r.raised /\ (r.issue_node # << >> \/ r.incident_node # << >>)

\* C3: with dry-run off, once the log of an eligible unmarked Result is
\* fetched and its classification yields a finding, the worker goes on to
\* the Publisher and the marker with that Result.
C3_EndToEndDelivery ==
  (/\ cur # None
   /\ ~dry_run
   /\ is_processable(_cfg, node, phase) = "true"
   /\ pc \notin FetchPcs \cup {"generate"}
   /\ Deliverable)
  => pc \in SubmitPcs \cup {"mark"}

C5_NoReprocess ==
  pc \in HandlingPcs => cur \notin processed[phase]

\* after a restart a pass skipped a Result on its processed marker
C5_Witness ==
  /\ restarts >= 1
  /\ \E id \in skipped : id \in processed[phase] /\ published[id] = 0

\* C6: a failed log fetch or classification of one Result does not end the
\* pass while later Results of the loop wait.
C6_FailureIsolation ==
  ~(pc = "crashed" /\ cause \in {"fetch", "classify"} /\ queue # << >>)

\* C7: when the fetch or the classification of a Result has failed, the
\* Result is not in the processed partition and the spool holds no file
\* for it.
C7_FailedNotMarked ==
  (pc = "crashed" /\ cause \in {"fetch", "classify"})
  => /\ cur \notin processed[phase]
     /\ published[cur] = 0
     /\ \A n \in DOMAIN spool : spool[n].rid # cur

\* a fetch has failed on an eligible Result
C7_Witness ==
  pc = "crashed" /\ cause = "fetch" /\ is_processable(_cfg, node, phase) = "true"

\* C8: after a selector query has failed in a pass, no Result is handled in
\* that pass.
C8_QueryFailureAbortsPass ==
  qfail => pc \notin HandlingPcs

\* C9: a selector query failure does not end the worker.
C9_QueryFailureRecoverable ==
  ~(pc = "crashed" /\ cause = "query")

\* C10: when the worker has stopped, every file under a final cache name
\* holds the complete plain-text log.
C10_CacheCrashSafe ==
  ~Running => \A url \in Urls :
                CacheName(url) \in DOMAIN cache => cache[CacheName(url)] = "plain"

\* C11: when fetch_log_id has returned None for a Result's URL, no file
\* exists under that URL's cache name.
C11_FailedFetchLeavesNoEntry ==
  (pc = "crashed" /\ cause = "fetch") => cache_file \notin DOMAIN cache

\* C12: with dry-run off, the iteration that finds a selected Result
\* ineligible marks it processed and goes on to the next row: the Result is
\* not handed to logspec_process_node, and the cache and the spool are
\* left as they were.
C12_IneligibleMarked ==
  [][(/\ pc = "loop"
      /\ queue # << >>
      /\ ~dry_run
      /\ is_processable(_cfg, Row(phase, Head(queue)), phase) = "false"
      /\ pc' # "killed")
     => /\ Head(queue) \in processed'[phase]
        /\ pc' = "loop"
        /\ cur' = cur
        /\ queue' = Tail(queue)
        /\ cache' = cache
        /\ spool' = spool]_vars

\* an ineligible Result of the first pass is marked, nothing was fetched
C12_Witness ==
  /\ ~dry_run
  /\ restarts = 0
  /\ passes = 0
  /\ pc = "loop"
  /\ \E id \in processed[phase] : is_processable(_cfg, Row(phase, id), phase) = "false"
  /\ cache = EmptyDir

\* C13: the iteration never evaluates the Eligibility Filter on a Result
\* that is ineligible and already marked processed.
C13_NoReevaluation ==
  [][~(/\ pc = "loop"
       /\ queue # << >>
       /\ Head(queue) \in processed[phase]
       /\ is_processable(_cfg, Row(phase, Head(queue)), phase) = "false"
       /\ pc' = "loop"
       /\ queue' = Tail(queue))]_vars

\* C15: a malformed include_path never stops the worker while a Result is
\* being evaluated inside a pass.
C15_MalformedFatalAtStartup ==
  ~(pc = "crashed" /\ cause = "exit" /\ cur # None)

\* C16: started without a config file, the worker has an empty config and
\* an empty set of allowed origins, and none of its steps handles a Result,
\* changes a processed partition, the cache or the spool, or ends the
\* worker (a failed selector query apart, which no config prevents).
C16_AbsentConfigIdle ==
  [][(config_file = "absent" /\ Running /\ pc' # "killed")
     => /\ DOMAIN _cfg = {}
        /\ get_origins(_cfg) = {}
        /\ pc' \notin HandlingPcs
        /\ processed' = processed
        /\ cache' = cache
        /\ spool' = spool
        /\ (pc' = "crashed" => cause' = "query")]_vars

\* two passes have run to their end without a config file
C16_Witness ==
  config_file = "absent" /\ restarts = 0 /\ passes >= 1 /\ pc = "sleep"

\* C17: in dry-run mode no step adds an id to a processed partition and no
\* step creates or changes a file of the spool.
C17_DryRunNoSideEffects ==
  [][dry_run => (processed' = processed /\ spool' = spool)]_vars

\* in dry-run mode an eligible Result was fetched and classified, findings
\* came out, and its iteration is at the marking step
C17_Witness ==
  /\ dry_run
  /\ restarts = 0
  /\ pc = "mark"
  /\ res.issue_node # << >>
  /\ cache_file \in DOMAIN cache

\* The rule that decides for a kind: the first of the origin's rules whose
\* type is the kind, if there is one.
MatchedRule(rules, kind) ==
  { i \in 1..Len(rules) : rules[i].type = kind /\ \A j \in 1..(i-1) : rules[j].type # kind }

\* The globs of an include_path: a string is one glob, a list its elements,
\* anything else none.
Globs(include_path) ==
  CASE include_path.t = "str" -> {include_path.v}
    [] include_path.t = "list" -> { include_path.v[i] : i \in 1..Len(include_path.v) }
    [] OTHER -> {}

\* What section 4.2 asks of the Eligibility Filter.
Eligible(c, row, kind) ==
  /\ row.origin \in DOMAIN c
  /\ \E i \in MatchedRule(c[row.origin], kind) :
        LET rule == c[row.origin][i]
        IN \/ "include_path" \notin DOMAIN rule
           \/ /\ "path" \in DOMAIN row
              /\ \E g \in Globs(rule.include_path) : fnmatch(row.path, g)

\* C14: is_processable returns True exactly when the Result's origin is a
\* key of the config, the origin has a rule of the Result's kind, and the
\* rule that decides has no include_path or one of its globs matches the
\* Result's path; and under the config {originA: [{type: test,
\* include_path: [boot/*]}]} the test boot/x86 of originA is eligible, the
\* test setup/foo is not, a build of originA is not, a test of originB is
\* not.
C14_EligibilityCorrect ==
  (call.fn = "is_processable" /\ ret # << >>)
  => LET config == call.args[1]
         kind == call.args[2]
         id == call.args[3]
     IN /\ (ret[1] = "true") <=> Eligible(load_config(config), Row(kind, id), kind)
        /\ config = "boot" =>
             /\ id = "t1" => ret[1] = "true"
             /\ id = "t2" => ret[1] = "false"
             /\ id = "b1" => ret[1] = "false"
             /\ id = "t6" => ret[1] = "false"

\* the test boot/x86 of originA was found eligible under a config whose
\* include_path is one string
C14_Witness ==
  /\ call.fn = "is_processable"
  /\ call.args = <<"str", "test", "t1">>
  /\ ret = <<"true">>

\* C18: for two findings with the same origin and the same signature,
\* new_issue yields the same id, origin:signature, and the same version, 1,
\* whatever their other attributes and whatever the kinds.
C18_IssueIdentityStable ==
  (call.fn = "new_issue" /\ ret # << >>
     /\ FnFindings[call.args[1]].signature = FnFindings[call.args[3]].signature)
  => /\ ret[1][1].id = ret[1][2].id
     /\ ret[1][1].version = ret[1][2].version
     /\ ret[1][1].id = <<call.args[5], ":", FnFindings[call.args[1]].signature>>
     /\ ret[1][1].version = 1

\* two findings of one signature that differ in type, summary, target and
\* excerpt, one taken as a boot finding and one as a build finding: the
\* issues differ in their comment
C18_Witness ==
  /\ call.fn = "new_issue"
  /\ ret # << >>
  /\ call.args[1] = 2 /\ call.args[2] = "boot"
  /\ call.args[3] = 3 /\ call.args[4] = "build"
  /\ ret[1][1].comment # ret[1][2].comment

\* C19: two calls of new_incident yield the same incident id exactly when
\* they agree on the result id, the issue id, the issue version and the
\* origin.
C19_IncidentIdentity ==
  (call.fn = "new_incident" /\ ret # << >>)
  => LET a == call.args
     IN (ret[1][1].id = ret[1][2].id)
        <=> (a[1] = a[5] /\ a[2] = a[6] /\ a[3] = a[7] /\ a[4] = a[8])

\* two calls that differ in the issue version only
C19_Witness ==
  /\ call.fn = "new_incident"
  /\ ret # << >>
  /\ call.args[1] = call.args[5] /\ call.args[2] = call.args[6]
  /\ call.args[4] = call.args[8] /\ call.args[3] # call.args[7]
  /\ ret[1][1].id # ret[1][2].id

\* the findings of a batch that become issues: a signature, not the noise type
Kept(batch) ==
  { i \in 1..Len(batch) :
      /\ FnFindings[batch[i]].signature # ""
      /\ FnFindings[batch[i]].error_type # "linux.kernel.error_return_code" }

\* K: the distinct signatures among them
K(batch) == Cardinality({ FnFindings[batch[i]].signature : i \in Kept(batch) })

\* C20: in the issue list of a batch no two issues share an id, and the
\* list's length is the number of distinct signatures among the findings
\* of the batch that have a signature and are not of the noise type.
C20_IssueDedup ==
  (call.fn = "generate" /\ ret # << >>)
  => LET issues == ret[1].issue_node
     IN /\ \A i, j \in 1..Len(issues) : issues[i].id = issues[j].id => i = j
        /\ Len(issues) = K(call.args[1])

\* a batch of three findings, two of them with the same signature
C20_Witness ==
  /\ call.fn = "generate"
  /\ ret # << >>
  /\ call.args[1] = <<2, 4, 3>>
  /\ Len(ret[1].issue_node) = 2
  /\ Len(ret[1].incident_node) = 3

\* the findings of a batch of the noise type
Noise(batch) ==
  { i \in 1..Len(batch) :
      FnFindings[batch[i]].error_type = "linux.kernel.error_return_code" }

\* the findings of a batch that are not of the noise type and have no signature
Unsigned(batch) ==
  { i \in 1..Len(batch) \ Noise(batch) : FnFindings[batch[i]].signature = "" }

C22_IncidentsDistinct ==
  (call.fn = "generate" /\ ret # << >>)
  => LET incidents == ret[1].incident_node
     IN /\ \A i, j \in 1..Len(incidents) : incidents[i].id = incidents[j].id => i = j
        /\ Len(incidents) = Len(ret[1].issue_node)

\* C23: a noise finding adds neither an issue nor an incident: the issues
\* of a batch are those of the signatures of its other findings, none
\* carries the noise type, and each incident refers to one of them.
C23_NoiseSuppressed ==
  (call.fn = "generate" /\ ret # << >>)
  => LET batch == call.args[1]
         issues == ret[1].issue_node
         incidents == ret[1].incident_node
         ids == { <<call.args[4], ":", FnFindings[batch[i]].signature>> : i \in Kept(batch) }
     IN /\ { issues[i].id : i \in 1..Len(issues) } = ids
        /\ { incidents[i].issue_id : i \in 1..Len(incidents) } = ids
        /\ \A i \in 1..Len(issues) :
              issues[i].misc.error_type # "linux.kernel.error_return_code"
        /\ Len(incidents) = Cardinality(Kept(batch))

\* a noise finding with the signature of another finding of the batch:
\* one issue, one incident
C23_Witness ==
  /\ call.fn = "generate"
  /\ ret # << >>
  /\ call.args[1] = <<5, 1>>
  /\ Len(ret[1].issue_node) = 1
  /\ Len(ret[1].incident_node) = 1

\* the synthetic findings of a normalized list
Synthetic(errors_list) ==
  { i \in 1..Len(errors_list) : errors_list[i].error_type = "linux.kernel.boot" }

\* C24: for the boot parser, a parsed state with linux.boot.prompt true,
\* whatever bootloader.done and linux.boot.kernel_started are, gives exactly
\* one synthetic finding, the unclean boot one, ahead of the engine's
\* findings, and the proposed status PASS.
C24_UncleanBoot ==
  (/\ call.fn = "get_logspec_errors"
   /\ ret # << >>
   /\ call.args[4] = "generic_linux_boot"
   /\ call.args[1] = "True")
  => /\ Synthetic(ret[1].errors_list) = {1}
     /\ ret[1].errors_list[1].error_summary = "unclean boot"
     /\ Len(ret[1].errors_list) = 1 + Len(call.args[5])
     /\ ret[1].new_status = "PASS"

\* the prompt was reached although the bootloader never reported done
C24_Witness ==
  /\ call.fn = "get_logspec_errors"
  /\ ret # << >>
  /\ call.args = <<"True", "False", None, "generic_linux_boot", <<1>> >>
  /\ ret[1].new_status = "PASS"

\* C25: for the boot parser, a parsed state without the prompt gives
\* exactly one synthetic finding, the boot infra failure one, and the
\* proposed status MISS when bootloader.done or linux.boot.kernel_started is
\* false or missing; it gives no synthetic finding and no status when both
\* are true.
C25_BootInfraFailure ==
  (/\ call.fn = "get_logspec_errors"
   /\ ret # << >>
   /\ call.args[4] = "generic_linux_boot"
   /\ call.args[1] # "True")
  => IF call.args[2] = "True" /\ call.args[3] = "True"
     THEN /\ Synthetic(ret[1].errors_list) = {}
          /\ Len(ret[1].errors_list) = Len(call.args[5])
          /\ ret[1].new_status = None
     ELSE /\ Synthetic(ret[1].errors_list) = {1}
          /\ ret[1].errors_list[1].error_summary = "boot infra failure"
          /\ Len(ret[1].errors_list) = 1 + Len(call.args[5])
          /\ ret[1].new_status = "MISS"

\* the parsed state {bootloader.done: false}, and nothing else
C25_Witness ==
  /\ call.fn = "get_logspec_errors"
  /\ ret # << >>
  /\ call.args = <<None, "False", None, "generic_linux_boot", << >> >>
  /\ ret[1].new_status = "MISS"
  /\ Len(ret[1].errors_list) = 1

\* C26: every file of the spool directory, finished or not, holds an
\* envelope with at least one issue or one incident, and submit_to_kcidb
\* runs only on a result with at least one issue or one incident.
C26_NoEmptyEnvelope ==
  /\ \A f \in DOMAIN spool :
        spool[f].env.issue_node # << >> \/ spool[f].env.incident_node # << >>
  /\ pc \in SubmitPcs => (res.issue_node # << >> \/ res.incident_node # << >>)

\* an envelope is in the spool, and a later Result of the pass classified
\* with no finding is at the marking step without a file written for it
C26_Witness ==
  /\ ~dry_run
  /\ restarts = 0
  /\ passes = 0
  /\ pc = "mark"
  /\ res = NoRes
  /\ published[cur] = 0
  /\ JsonFiles(spool) # {}
  /\ \A f \in DOMAIN spool : spool[f].rid # cur

\* C27: with dry-run off, a Result whose classification returns no issue
\* and no incident goes to the marking step, and the marking step puts it
\* in the processed set of its kind and goes on with the loop of the same pass.
C27_EmptyResultMarked ==
  [][/\ (/\ pc = "generate"
         /\ ~dry_run
         /\ pc' \notin {"generate", "killed", "crashed"}
         /\ res' = NoRes)
        => (pc' = "mark" /\ cur' = cur /\ spool' = spool)
     /\ (pc = "mark" /\ ~dry_run /\ pc' # "killed")
        => /\ cur \in processed'[phase]
           /\ pc' = "loop"
           /\ passes' = passes
           /\ restarts' = restarts]_vars

\* in the first pass a Result that was classified with no finding is marked
\* and nothing was published for it
C27_Witness ==
  /\ ~dry_run
  /\ restarts = 0
  /\ passes = 0
  /\ config_file = "all"
  /\ pc = "loop"
  /\ "t2" \in processed["test"]
  /\ published["t2"] = 0
  /\ is_processable(_cfg, Row("test", "t2"), "test") = "true"

\* C28: no step removes a key from a processed-set store.
C28_ProcessedGrows ==
  [][\A k \in Kinds : processed[k] \subseteq processed'[k]]_vars

\* a restarted worker in its second pass finds the keys of both stores
C28_Witness ==
  /\ restarts = 1
  /\ passes = 1
  /\ Running
  /\ processed["build"] # {}
  /\ Cardinality(processed["test"]) >= 2

\* C29: marking an id of a kind a second time leaves both stores as the
\* first marking left them; a marking puts the id in its kind's store and
\* leaves the other kind's store as it was before.
C29_MarkIdempotent ==
  (call.fn = "set_processed" /\ ret # << >>)
  => LET kind == call.args[1]
         id == call.args[2]
         before == call.args[3]
     IN /\ \A i \in 1..Len(ret) :
              /\ ret[i][kind] = before[kind] \cup {id}
              /\ \A k \in Kinds \ {kind} : ret[i][k] = before[k]
        /\ Len(ret) = 2 => ret[2] = ret[1]
        /\ processed = ret[Len(ret)]

\* a build id marked twice while the tests store holds a key and the builds
\* store does not hold the id
C29_Witness ==
  /\ call.fn = "set_processed"
  /\ Len(ret) = 2
  /\ call.args[1] = "build"
  /\ call.args[2] = "b1"
  /\ call.args[3] = [k \in Kinds |-> IF k = "test" THEN {"t1"} ELSE {}]
  /\ processed = [k \in Kinds |-> IF k = "test" THEN {"t1"} ELSE {"b1"}]

\* both instances passed the is_processed check for one Result, neither
\* has marked it, fetch_log_id returned the log to each, and each is past
\* the call of line 324
BothPassed ==
  /\ cur # None
  /\ other.cur = cur
  /\ other.phase = phase
  /\ is_processable(_cfg, node, phase) = "true"
  /\ cur \notin processed[phase]
  /\ pc \notin FetchPcs \cup {"generate", "loop", "killed"}
  /\ other.pc \notin {"loop", "fetch_log_id", "generate"}
  /\ "fetch" \notin {cause, other.cause}

\* C30: with dry-run off, when both instances have passed the is_processed
\* check for the same Result before either marked it, and its log is
\* fetched and yields a finding, both instances classify it and go on to
\* publish it.
C30_BothPublish ==
  (BothPassed /\ ~dry_run /\ Deliverable)
  => (pc \in SubmitPcs \cup {"mark"} /\ other.pc = "mark")

\* the Result was published by both instances before either marked it
C30_PublishedTwice ==
  /\ BothPassed
  /\ ~dry_run
  /\ restarts = 0
  /\ pc = "mark"
  /\ other.pc = "mark"
  /\ published[cur] = 2

\* C33: in every pass the worker takes the builds the selector returned,
\* then the tests, one row at a time from the head of the list: the list
\* changes only by losing its head or by a query's answer, the row handled
\* is the head that was taken, process_tests is entered only when no build
\* is left or in hand, and while tests are handled the list holds tests.
C33_BuildsBeforeTests ==
  [][/\ (queue' # queue)
        => \/ /\ pc = "loop"
              /\ queue # << >>
              /\ queue' = Tail(queue)
              /\ phase' = phase
           \/ /\ pc \in {"process_builds", "process_tests"}
              /\ \E rows \in Orders(Selected(phase', get_origins(_cfg))) :
                    queue' = [i \in DOMAIN rows |-> rows[i].id]
           \/ queue' = << >> /\ pc' \in {"killed", "process_builds"}
     /\ (cur' # cur /\ cur' # None)
        => (pc = "loop" /\ queue # << >> /\ cur' = Head(queue) /\ cur = None)
     /\ (pc' = "process_tests" /\ pc # "process_tests")
        => (queue = << >> /\ cur = None /\ phase = "build"
            /\ pc \in {"loop", "process_builds"})
     /\ (phase' = "test" /\ phase = "build") => (pc = "process_tests" /\ queue = << >>)
     /\ \A i \in 1..Len(queue') : queue'[i] \in Ids(phase')
     /\ pc' \in HandlingPcs => cur' \in Ids(phase')]_vars

\* a test is being fetched, another waits in the list, and the build of
\* the same pass was published and marked
C33_Witness ==
  /\ ~dry_run
  /\ restarts = 0
  /\ passes = 0
  /\ phase = "test"
  /\ pc = "fetch_log_id"
  /\ queue # << >>
  /\ published["b1"] = 1
  /\ "b1" \in processed["build"]

\* what the selector's contract asks of a row, under the config of this run
InContract(r) ==
  /\ r.log_url # NULL
  /\ r.status # "PASS"
  /\ r.age < PROCESS_DAYS
  /\ r.origin \in get_origins(_cfg)

\* C34: the row in hand and the rows waiting in the list have a log
\* location, a status other than PASS, a timestamp inside the window and an
\* origin among the config's; so has every row marked or published by the
\* first run of the worker.
C34_SelectedOnly ==
  /\ cur # None => InContract(node)
  /\ \A i \in 1..Len(queue) : InContract(Row(phase, queue[i]))
  /\ restarts = 0
     => /\ \A k \in Kinds : \A id \in processed[k] : InContract(Row(k, id))
        /\ \A id \in AllIds : published[id] > 0 => InContract(Row(KindOf(id), id))
        /\ \A r \in BuildsTable \cup TestsTable :
              (r.log_url # NULL /\ CacheName(r.log_url) \in DOMAIN cache) => InContract(r)

\* both tables hold rows outside the contract, and the pass has marked a
\* test and is publishing for another
C34_Witness ==
  /\ ~dry_run
  /\ restarts = 0
  /\ phase = "test"
  /\ pc \in SubmitPcs
  /\ processed["test"] # {}
  /\ \E r \in TestsTable : r.origin \in get_origins(_cfg) /\ ~InContract(r)
  /\ \E r \in BuildsTable : r.origin \in get_origins(_cfg) /\ ~InContract(r)

\* C35: a file the publisher has renamed to its final name is called
\* logspec_<random-hex>.json, the temporary name less ".temp".
C35_FinalName ==
  \A n \in JsonFiles(spool) :
     \E random_part \in RandomParts :
        /\ n = <<"logspec_", random_part>> \o DotJson
        /\ n \o DotTemp = TempName(random_part)

\* the classification of the cached log of a row yields a finding
Yields(kind, id) ==
  LET r == Row(kind, id)
  IN /\ CacheName(r.log_url) \in DOMAIN cache
     /\ LET g == generate_issues_and_incidents(id, r.log_url,
                   TextOf(cache[CacheName(r.log_url)]),
                   IF kind = "test" THEN "boot" ELSE "build", r.origin)
        IN ~g.raised /\ (g.issue_node # << >> \/ g.incident_node # << >>)

\* C36: with dry-run off, a Result that is fetched, classified or being
\* published is not marked; when the worker comes to mark a Result that
\* had findings, its envelope is in the spool, complete, under a final
\* name; and in the first run every marked eligible Result whose log
\* yields a finding has had its envelope renamed to a final name.
C36_PublishBeforeCommit ==
  ~dry_run
  => /\ pc \in FetchPcs \cup {"generate"} \cup SubmitPcs => cur \notin processed[phase]
     /\ (pc = "mark" /\ (res.issue_node # << >> \/ res.incident_node # << >>))
        => /\ published[cur] >= 1
           /\ \E n \in JsonFiles(spool) :
                 spool[n].rid = cur /\ spool[n].env = res /\ spool[n].st = "full"
     /\ restarts = 0
        => \A k \in Kinds : \A id \in processed[k] :
              (is_processable(_cfg, Row(k, id), k) = "true" /\ Yields(k, id))
              => published[id] >= 1

\* the worker was stopped and started again, a Result with findings was
\* published and is about to be marked
C36_Witness ==
  /\ ~dry_run
  /\ restarts = 1
  /\ pc = "mark"
  /\ res.issue_node # << >>
  /\ published[cur] >= 1
  /\ cur \notin processed[phase]

\* the rules of a kind in a rule list, by position
RulesOf(rules, kind) == { i \in 1..Len(rules) : rules[i].type = kind }

\* a rule taken alone accepts the row
Accepts(rule, row) ==
  \/ "include_path" \notin DOMAIN rule
  \/ /\ "path" \in DOMAIN row
     /\ \E g \in Globs(rule.include_path) : fnmatch(row.path, g)

\* C37: when the rule list of the Result's origin holds several rules of
\* the Result's kind, is_processable answers as the first of them alone
\* does: a Result whose path the first rule's include_path does not match
\* is not eligible, also when a later rule of the kind accepts it.
C37_FirstRuleDecides ==
  (/\ call.fn = "is_processable"
   /\ ret # << >>
   /\ Row(call.args[2], call.args[3]).origin \in DOMAIN load_config(call.args[1])
   /\ Cardinality(RulesOf(load_config(call.args[1])[Row(call.args[2], call.args[3]).origin],
                          call.args[2])) >= 2)
  => LET kind == call.args[2]
         row == Row(kind, call.args[3])
         rules == load_config(call.args[1])[row.origin]
         first == CHOOSE i \in RulesOf(rules, kind) : \A j \in RulesOf(rules, kind) : i <= j
     IN /\ (ret[1] = "true") <=> Accepts(rules[first], row)
        /\ ~Accepts(rules[first], row) => ret[1] = "false"

\* the first test rule of originA admits setup/* only, the second admits
\* boot/* too: the test boot/x86 is not eligible
C37_Witness ==
  /\ call.fn = "is_processable"
  /\ call.args = <<"two", "test", "t1">>
  /\ ret = <<"false">>
  /\ LET rules == load_config("two")["originA"]
     IN /\ ~Accepts(rules[1], Row("test", "t1"))
        /\ Accepts(rules[2], Row("test", "t1"))

\* C38: in what generate_issues_and_incidents returns, every incident's
\* issue_id and issue_version are the id and version of exactly one issue
\* of the returned list, and every returned issue is referred to by an
\* incident.
C38_ReferentialIntegrity ==
  (call.fn = "generate" /\ ret # << >>)
  => LET issues == ret[1].issue_node
         incidents == ret[1].incident_node
         refs(n) == { i \in 1..Len(issues) :
                        /\ issues[i].id = incidents[n].issue_id
                        /\ issues[i].version = incidents[n].issue_version }
     IN /\ \A n \in 1..Len(incidents) : Cardinality(refs(n)) = 1
        /\ \A i \in 1..Len(issues) : \E n \in 1..Len(incidents) : i \in refs(n)

\* three findings, two signatures, one of them twice: three incidents
\* refer to two issues
C38_Witness ==
  /\ call.fn = "generate"
  /\ ret # << >>
  /\ call.args[1] = <<1, 4, 3>>
  /\ Len(ret[1].issue_node) = 2
  /\ Len(ret[1].incident_node) = 3

(***************************************************************************)
(* C31: every non-empty .json file the ingester picks up ends in archive/  *)
(* when validate, upgrade and load succeeded and in failed/ when one of    *)
(* them raised, never in both and never back in the spool; after a         *)
(* failure the scan goes on, so that when it ends no .json file of its     *)
(* listing is left in the spool.                                           *)
(***************************************************************************)
C31_IngesterOutcome ==
  /\ ingester.pc = "archive" => ingester.last[ingester.filename] = "loaded"
  /\ ingester.pc = "failed" => ingester.last[ingester.filename] = "raised"
  /\ \A name \in DOMAIN ingester.archive_dir :
       /\ ingester.last[name] = "loaded"
       /\ name \notin DOMAIN ingester.failed_dir
       /\ name \notin DOMAIN spool
  /\ \A name \in DOMAIN ingester.failed_dir :
       /\ ingester.last[name] = "raised"
       /\ name \notin DOMAIN ingester.archive_dir
       /\ name \notin DOMAIN spool
  /\ ingester.pc = "sleep" =>
       \A name \in ingester.listed :
         ~isdir(name) /\ endswith_json(name) => name \notin DOMAIN spool

\* a scan that ended with one file archived and another in failed/
C31_Witness ==
  /\ ingester.pc = "sleep"
  /\ ingester.restarts = 0
  /\ ForeignJson \in ingester.listed
  /\ \E rp \in RandomParts : FinalName(TempName(rp)) \in ingester.listed
  /\ DOMAIN ingester.archive_dir # {}
  /\ DOMAIN ingester.failed_dir # {}

(***************************************************************************)
(* C32: however the publisher's steps (open the .temp file, write, rename) *)
(* interleave with the ingester's scan, the ingester opens only names that *)
(* end in ".json", and what it loads, archives or moves to failed/ is a    *)
(* completely written file, never one still under ".temp".                 *)
(***************************************************************************)
C32_OnlyCompleteJson ==
  /\ ingester.pc \in {"open", "load", "archive", "failed"} =>
       /\ EndsWith(ingester.filename, DotJson)
       /\ ingester.filename \in DOMAIN spool
  /\ ingester.pc \in {"load", "archive", "failed"} =>
       spool[ingester.filename].st = "full"
  /\ \A i \in DOMAIN ingester.loaded : EndsWith(ingester.loaded[i], DotJson)
  /\ \A name \in DOMAIN ingester.archive_dir :
       EndsWith(name, DotJson) /\ ingester.archive_dir[name].st = "full"
  /\ \A name \in DOMAIN ingester.failed_dir :
       EndsWith(name, DotJson) /\ ingester.failed_dir[name].st = "full"

\* a scan that listed the publisher's half-written .temp file has ended
\* and the file is where it was
C32_Witness ==
  /\ ingester.pc = "sleep"
  /\ \E rp \in RandomParts :
       /\ TempName(rp) \in ingester.listed
       /\ TempName(rp) \in DOMAIN spool
       /\ spool[TempName(rp)].st = "trunc"
  /\ ForeignTemp \in DOMAIN spool

(***************************************************************************)
(* C39: the ingester loads a spool file into the database at most once,    *)
(* also when it is stopped between any two of its steps and started        *)
(* again: no name occurs twice in the list of the files db_client.load     *)
(* has taken.                                                              *)
(***************************************************************************)
C39_LoadedOnce ==
  \A i, j \in DOMAIN ingester.loaded :
    ingester.loaded[i] = ingester.loaded[j] => i = j

=============================================================================
